---- MODULE Spec2Model ----
(***************************************************************************)
(* Model of binary.js: the Binary class, a sequence of bits stored         *)
(* most-significant bit first, with conversions from and to signed and     *)
(* unsigned integers, zero extension, the bitwise operations and a         *)
(* ripple-carry add.                                                       *)
(*                                                                         *)
(* A JavaScript array is a TLA+ sequence (bits[0] is bits[1] here).  A     *)
(* call either returns or throws; its outcome is a record.  The program    *)
(* state is the two Binary objects a script holds (the "a" and "b" of the  *)
(* file's test section) and the outcome of the last call.                  *)
(***************************************************************************)
EXTENDS Integers, Sequences, FiniteSets, TLC

\* Widest bit array a script hands to the constructor or keeps in a variable.
MaxWidth == 3

\* Integers handed to fromUnsigned / fromSigned range over -MaxN .. MaxN.
MaxN == 10

Bit == {0, 1}

\* All bit arrays of length 0 .. n.
BitSeqs(n) == UNION {[1..k -> Bit] : k \in 0..n}

-----------------------------------------------------------------------------
(* The bit operators of JavaScript on operands that are 0 or 1.            *)

BitAnd(x, y) == IF x = 1 /\ y = 1 THEN 1 ELSE 0

BitOr(x, y) == IF x = 1 \/ y = 1 THEN 1 ELSE 0

BitXor(x, y) == IF (x = 1) # (y = 1) THEN 1 ELSE 0

\* Array.from({length: n}, () => v)
Fill(n, v) == [i \in 1..n |-> v]

\* Array.prototype.slice(1): a new array without the first element.
slice1(a) == IF Len(a) = 0 THEN << >> ELSE [i \in 1..(Len(a) - 1) |-> a[i + 1]]

-----------------------------------------------------------------------------
(* Helpers of the file.                                                    *)

\* combineMap(a1, a2, fn) = a1.map((x, i) => fn(x, a2[i])): one element per
\* element of a1.  The class only calls it with arrays of equal length.
\* The callback fn is a function on pairs of bits.
combineMap(a1, a2, fn) == [i \in 1..Len(a1) |-> fn[a1[i], a2[i]]]

\* A plausible slip: Array.prototype.reverse() on the argument itself, which
\* reverses it in place and returns it.
reverseInPlace(a) ==
    LET r == [i \in 1..Len(a) |-> a[Len(a) + 1 - i]]
    IN  [ret |-> r, arg |-> r]

\* reverse(a) = [...a].reverse(): ret is the returned array, arg is the
\* argument array as the call leaves it (the spread copies it first).
reverse(a) ==
    [ret |-> [i \in 1..Len(a) |-> a[Len(a) + 1 - i]], arg |-> a]

-----------------------------------------------------------------------------
(* Outcomes of a call.                                                     *)

\* The messages of the four `throw new Error(...)` sites, without the
\* interpolated widths.
BitMismatch == "Bit mismatch"
NotBinary == "Not an instance of Binary"
OnlyIntegers == "Can only create Binary from integers."
NeedLarger == "Need to extend to a larger number of bits"

\* return new Binary(b)
RetBinary(b) == [kind |-> "ok", err |-> "", ret |-> "Binary", bits |-> b, num |-> 0]

\* return <number>
RetNumber(n) == [kind |-> "ok", err |-> "", ret |-> "Number", bits |-> << >>, num |-> n]

\* throw new Error(msg)
Throw(msg) == [kind |-> "throw", err |-> msg, ret |-> "none", bits |-> << >>, num |-> 0]

\* A Binary object handed as an argument, and a value that is no Binary.
Obj(b) == [isBinary |-> TRUE, bits |-> b]
NonBinary == [isBinary |-> FALSE, bits |-> << >>]

\* A number handed to a factory: an integer v, or a value for which
\* Number.isInteger is false (2.5, NaN, a string).
Integer(v) == [isInt |-> TRUE, v |-> v]
NonInteger == [isInt |-> FALSE, v |-> 0]

\* Number.isInteger(n)
isInteger(n) == n.isInt

\* Math.abs on an integer.
abs(v) == IF v < 0 THEN -v ELSE v

\* Math.floor(Math.log2(n)) for an integer n >= 1, computed exactly.
RECURSIVE floorLog2(_)
floorLog2(n) == IF n < 2 THEN 0 ELSE 1 + floorLog2(n \div 2)

-----------------------------------------------------------------------------
(* The assertions.  Each yields the message it throws, or NoThrow.         *)

NoThrow == ""

\* A plausible slip: only a shorter operand is rejected.
assertShorterOnly(this, other) ==
    IF Len(other.bits) < Len(this) THEN BitMismatch ELSE NoThrow

assertSameNumberOfBits(this, other) ==
    IF Len(other.bits) # Len(this) THEN BitMismatch ELSE NoThrow

assertIsBinary(other) == IF ~other.isBinary THEN NotBinary ELSE NoThrow

\* The two assertions that open add, and, or and xor, in their order.
assertOperand(this, other) ==
    IF assertIsBinary(other) # NoThrow THEN assertIsBinary(other)
    ELSE assertSameNumberOfBits(this, other)

-----------------------------------------------------------------------------
(* Conversion to numbers, zero extension, not.                             *)

\* The forEach of toNumber from index i on (i is 1-based: the bit at i has
\* place value 2^(length - i)).
RECURSIVE toNumberLoop(_, _, _)
toNumberLoop(bits, i, total) ==
    IF i > Len(bits) THEN total
    ELSE toNumberLoop(bits, i + 1,
                      IF bits[i] = 1 THEN total + 2^(Len(bits) - i) ELSE total)

toNumber(this) == RetNumber(toNumberLoop(this, 1, 0))

\* A plausible slip: < for <=, so that the current width is accepted.
zeroExtendAllowEqual(this, nBits) ==
    IF nBits < Len(this) THEN Throw(NeedLarger)
    ELSE RetBinary(Fill(nBits - Len(this), 0) \o this)

zeroExtend(this, nBits) ==
    IF nBits <= Len(this) THEN Throw(NeedLarger)
    ELSE RetBinary(Fill(nBits - Len(this), 0) \o this)

zeroExtendToMatch(this, other) ==
    IF assertIsBinary(other) # NoThrow THEN Throw(assertIsBinary(other))
    ELSE zeroExtend(this, Len(other.bits))

\* A plausible slip: the two branches of the conditional swapped.
notKeep(this) == RetBinary([i \in 1..Len(this) |-> IF this[i] = 0 THEN 0 ELSE 1])

not(this) == RetBinary([i \in 1..Len(this) |-> IF this[i] = 0 THEN 1 ELSE 0])

-----------------------------------------------------------------------------
(* add: ripple carry from the least-significant end.                       *)

\* A plausible slip: the carry of (a ^ b) & carryBit is dropped.
fullAdderNoRipple(a, b, carryBit) ==
    [abSumPlusCarry |-> BitXor(BitXor(a, b), carryBit), carryBit |-> BitAnd(a, b)]

\* The callback of add's combineMap: the bit it returns and the carryBit
\* it leaves in the enclosing variable.
fullAdder(a, b, carryBit) ==
    LET abSum == BitXor(a, b)
        abCarry == BitAnd(a, b)
        abSumPlusCarry == BitXor(abSum, carryBit)
        abSumCarry == BitAnd(abSum, carryBit)
    IN  [abSumPlusCarry |-> abSumPlusCarry, carryBit |-> BitOr(abCarry, abSumCarry)]

\* The map of add from index i on, over the two reversed arrays: the
\* callback runs once per element, in order, sharing carryBit.
RECURSIVE addLoop(_, _, _, _, _)
addLoop(ra, rb, i, carryBit, newBits) ==
    IF i > Len(ra) THEN [carryBit |-> carryBit, newBits |-> newBits]
    ELSE LET r == fullAdder(ra[i], rb[i], carryBit)
         IN  addLoop(ra, rb, i + 1, r.carryBit, Append(newBits, r.abSumPlusCarry))

add(this, other) ==
    IF assertOperand(this, other) # NoThrow THEN Throw(assertOperand(this, other))
    ELSE LET r == addLoop(reverse(this).ret, reverse(other.bits).ret, 1, 0, << >>)
         IN  RetBinary(<<r.carryBit>> \o reverse(r.newBits).ret)

-----------------------------------------------------------------------------
(* and, or, xor.                                                           *)

and(this, other) ==
    IF assertOperand(this, other) # NoThrow THEN Throw(assertOperand(this, other))
    ELSE RetBinary(combineMap(this, other.bits,
                              [bit1 \in Bit, bit2 \in Bit |-> BitAnd(bit1, bit2)]))

or(this, other) ==
    IF assertOperand(this, other) # NoThrow THEN Throw(assertOperand(this, other))
    ELSE RetBinary(combineMap(this, other.bits,
                              [bit1 \in Bit, bit2 \in Bit |-> BitOr(bit1, bit2)]))

\* A plausible slip: | typed for ^.
xorAsOr(this, other) ==
    IF assertOperand(this, other) # NoThrow THEN Throw(assertOperand(this, other))
    ELSE RetBinary(combineMap(this, other.bits,
                              [bit1 \in Bit, bit2 \in Bit |-> BitOr(bit1, bit2)]))

xor(this, other) ==
    IF assertOperand(this, other) # NoThrow THEN Throw(assertOperand(this, other))
    ELSE RetBinary(combineMap(this, other.bits,
                              [bit1 \in Bit, bit2 \in Bit |-> BitXor(bit1, bit2)]))

-----------------------------------------------------------------------------
(* The factories.                                                          *)

\* A plausible slip: > for >= in the loop's test.
fitsStrictly(numberInProgress, nearestPowerOfTwo) ==
    numberInProgress > 2^nearestPowerOfTwo

\* The test of fromUnsigned's loop body.
fits(numberInProgress, nearestPowerOfTwo) ==
    numberInProgress >= 2^nearestPowerOfTwo

\* The while loop of fromUnsigned.
RECURSIVE fromUnsignedLoop(_, _, _)
fromUnsignedLoop(nearestPowerOfTwo, numberInProgress, bits) ==
    IF ~(nearestPowerOfTwo >= 0) THEN bits
    ELSE IF fits(numberInProgress, nearestPowerOfTwo)
         THEN fromUnsignedLoop(nearestPowerOfTwo - 1,
                               numberInProgress - 2^nearestPowerOfTwo,
                               Append(bits, 1))
         ELSE fromUnsignedLoop(nearestPowerOfTwo - 1, numberInProgress,
                               Append(bits, 0))

\* For a negative integer Math.log2(n) is NaN, Math.floor(NaN) is NaN and
\* NaN >= 0 is false: the loop body never runs and the empty array is
\* wrapped and returned.
fromUnsigned(n) ==
    IF ~isInteger(n) THEN Throw(OnlyIntegers)
    ELSE IF n.v = 0 THEN RetBinary(<<0>>)
    ELSE IF n.v < 0 THEN RetBinary(<< >>)
    ELSE RetBinary(fromUnsignedLoop(floorLog2(n.v), n.v, << >>))

\* A plausible slip: the sign bit is not counted.
numberOfBitsNoSign(unsigned) == Len(unsigned.bits)

\* const numberOfBits = unsigned.bits.length + 1
numberOfBits(unsigned) == Len(unsigned.bits) + 1

\* Math.abs(n) is positive here, so neither fromUnsigned nor the factory of
\* the constant 1 throws; a throw of zeroExtend or add propagates.
fromSigned(n) ==
    IF ~isInteger(n) THEN Throw(OnlyIntegers)
    ELSE IF n.v = 0 THEN RetBinary(<<0>>)
    ELSE LET unsigned == fromUnsigned(Integer(abs(n.v)))
             withZeroSignBit == zeroExtend(unsigned.bits, numberOfBits(unsigned))
             flipped == not(withZeroSignBit.bits)
             one == zeroExtend(fromUnsigned(Integer(1)).bits, numberOfBits(unsigned))
             withAddedOne == add(flipped.bits, Obj(one.bits))
         IN  IF withZeroSignBit.kind = "throw" \/ n.v > 0 THEN withZeroSignBit
             ELSE IF one.kind = "throw" THEN one
             ELSE IF withAddedOne.kind = "throw" THEN withAddedOne
             ELSE RetBinary(slice1(withAddedOne.bits))

\* A plausible slip: the sum with minus one is not flipped.
toSignedNumberNoFlip(this) ==
    IF Len(this) > 0 /\ this[1] = 0 THEN toNumber(this)
    ELSE LET minusOne == Obj(Fill(Len(this), 1))
             positiveWithCarry == add(this, minusOne)
             positiveNumber == slice1(positiveWithCarry.bits)
         IN  RetNumber(-toNumber(positiveNumber).num)

\* this.bits[0] of an empty array is undefined, which is not === 0.
toSignedNumber(this) ==
    IF Len(this) > 0 /\ this[1] = 0 THEN toNumber(this)
    ELSE LET minusOne == Obj(Fill(Len(this), 1))
             positiveWithCarry == not(add(this, minusOne).bits)
             positiveNumber == slice1(positiveWithCarry.bits)
         IN  RetNumber(-toNumber(positiveNumber).num)

-----------------------------------------------------------------------------
(* The state: the Binary objects bound to the script's two variables, the  *)
(* bit array each was constructed with, and the call of the statement     *)
(* being run with its outcome.  The code is synchronous: a statement makes *)
(* one call, then binds what it returned to a variable or drops it.        *)

VARIABLES vecs, made, last

vars == <<vecs, made, last>>

\* The variables of the test section.
Names == {"a", "b"}

\* What a script can pass as `other`: one of its Binary objects or a value
\* that is no Binary.
Operands == Names \cup {"nonBinary"}

Operand(j) == IF j \in Names THEN Obj(vecs[j]) ELSE NonBinary

\* What a script can pass to a factory.
Numbers == {Integer(v) : v \in (-MaxN)..MaxN} \cup {NonInteger}

\* The record of a call: the receiver's bits and the arguments as they were
\* when the call was made, and the outcome.
Call(op, this, other, n, nBits, out) ==
    [op |-> op, this |-> this, other |-> other, n |-> n, nBits |-> nBits, out |-> out]

\* No call is being run.
Idle == Call("none", << >>, NonBinary, NonInteger, 0,
             [kind |-> "none", err |-> "", ret |-> "none", bits |-> << >>, num |-> 0])

\* The script starts with each variable bound to a Binary of at most one
\* bit; wider ones come from the calls below.
Init ==
    /\ vecs \in [Names -> BitSeqs(1)]
    /\ made = vecs
    /\ last = Idle

\* new Binary(bits): the constructor wraps the array.
New(bits) ==
    /\ last = Idle
    /\ last' = Call("new", << >>, NonBinary, NonInteger, 0, RetBinary(bits))
    /\ UNCHANGED <<vecs, made>>

FromUnsigned(n) ==
    /\ last = Idle
    /\ last' = Call("fromUnsigned", << >>, NonBinary, n, 0, fromUnsigned(n))
    /\ UNCHANGED <<vecs, made>>

FromSigned(n) ==
    /\ last = Idle
    /\ last' = Call("fromSigned", << >>, NonBinary, n, 0, fromSigned(n))
    /\ UNCHANGED <<vecs, made>>

ToNumber(i) ==
    /\ last = Idle
    /\ last' = Call("toNumber", vecs[i], NonBinary, NonInteger, 0, toNumber(vecs[i]))
    /\ UNCHANGED <<vecs, made>>

\* The add inside toSignedNumber runs on this.bits and on a fresh array of
\* ones; its two reverse calls are the only array calls that could write to
\* this.bits.
ToSignedNumber(i) ==
    /\ last = Idle
    /\ last' = Call("toSignedNumber", vecs[i], NonBinary, NonInteger, 0,
                    toSignedNumber(vecs[i]))
    /\ vecs' = IF Len(vecs[i]) > 0 /\ vecs[i][1] = 0 THEN vecs
               ELSE [vecs EXCEPT ![i] = reverse(vecs[i]).arg]
    /\ UNCHANGED made

ZeroExtend(i, nBits) ==
    /\ last = Idle
    /\ last' = Call("zeroExtend", vecs[i], NonBinary, NonInteger, nBits,
                    zeroExtend(vecs[i], nBits))
    /\ UNCHANGED <<vecs, made>>

ZeroExtendToMatch(i, j) ==
    /\ last = Idle
    /\ last' = Call("zeroExtendToMatch", vecs[i], Operand(j), NonInteger, 0,
                    zeroExtendToMatch(vecs[i], Operand(j)))
    /\ UNCHANGED <<vecs, made>>

\* add reverses this.bits, then other.bits, once both assertions passed;
\* a.add(a) passes the same array twice.
Add(i, j) ==
    /\ last = Idle
    /\ last' = Call("add", vecs[i], Operand(j), NonInteger, 0, add(vecs[i], Operand(j)))
    /\ vecs' = IF assertOperand(vecs[i], Operand(j)) # NoThrow THEN vecs
               ELSE LET v1 == [vecs EXCEPT ![i] = reverse(vecs[i]).arg]
                    IN  [v1 EXCEPT ![j] = reverse(v1[j]).arg]
    /\ UNCHANGED made

And(i, j) ==
    /\ last = Idle
    /\ last' = Call("and", vecs[i], Operand(j), NonInteger, 0, and(vecs[i], Operand(j)))
    /\ UNCHANGED <<vecs, made>>

Or(i, j) ==
    /\ last = Idle
    /\ last' = Call("or", vecs[i], Operand(j), NonInteger, 0, or(vecs[i], Operand(j)))
    /\ UNCHANGED <<vecs, made>>

Xor(i, j) ==
    /\ last = Idle
    /\ last' = Call("xor", vecs[i], Operand(j), NonInteger, 0, xor(vecs[i], Operand(j)))
    /\ UNCHANGED <<vecs, made>>

Not(i) ==
    /\ last = Idle
    /\ last' = Call("not", vecs[i], NonBinary, NonInteger, 0, not(vecs[i]))
    /\ UNCHANGED <<vecs, made>>

\* const a = <the Binary the last call returned>, as the test section does
\* with the results of fromUnsigned, zeroExtendToMatch and fromSigned.
Assign(k) ==
    /\ last.out.kind = "ok"
    /\ last.out.ret = "Binary"
    /\ Len(last.out.bits) <= MaxWidth
    /\ vecs' = [vecs EXCEPT ![k] = last.out.bits]
    /\ made' = [made EXCEPT ![k] = last.out.bits]
    /\ last' = Idle

\* console.log(<what the last call returned>), or the uncaught throw: the
\* statement ends and its outcome is bound to nothing.
Drop ==
    /\ last # Idle
    /\ last' = Idle
    /\ UNCHANGED <<vecs, made>>

Next ==
    \/ \E bits \in BitSeqs(MaxWidth) : New(bits)
    \/ \E n \in Numbers : FromUnsigned(n)
    \/ \E n \in Numbers : FromSigned(n)
    \/ \E i \in Names : ToNumber(i)
    \/ \E i \in Names : ToSignedNumber(i)
    \/ \E i \in Names, nBits \in 0..(MaxWidth + 1) : ZeroExtend(i, nBits)
    \/ \E i \in Names, j \in Operands : ZeroExtendToMatch(i, j)
    \/ \E i \in Names, j \in Operands : Add(i, j)
    \/ \E i \in Names, j \in Operands : And(i, j)
    \/ \E i \in Names, j \in Operands : Or(i, j)
    \/ \E i \in Names, j \in Operands : Xor(i, j)
    \/ \E i \in Names : Not(i)
    \/ \E k \in Names : Assign(k)
    \/ Drop

Spec == Init /\ [][Next]_vars

-----------------------------------------------------------------------------
(* Reference values the properties are stated against.                     *)

\* The unsigned value of a bit array, most-significant bit first (Horner).
RECURSIVE PlaceSum(_)
PlaceSum(b) ==
    IF Len(b) = 0 THEN 0 ELSE 2 * PlaceSum(SubSeq(b, 1, Len(b) - 1)) + b[Len(b)]

\* The two's-complement value of a bit array of width >= 1.
TwosComplement(b) == IF b[1] = 1 THEN PlaceSum(b) - 2^Len(b) ELSE PlaceSum(b)

\* The call being run is one of the four binary operations on a Binary
\* operand.
BinaryOpOnBinary == last.op \in {"add", "and", "or", "xor"} /\ last.other.isBinary

SameWidth == Len(last.other.bits) = Len(last.this)

-----------------------------------------------------------------------------
(* Properties.                                                             *)

\* C1: for every integer n (negative, zero, positive), fromSigned(n) returns
\* a Binary whose toSignedNumber() is n.
C1_SignedRoundTrip ==
    (last.op = "fromSigned" /\ isInteger(last.n)) =>
        /\ last.out.kind = "ok" /\ last.out.ret = "Binary"
        /\ toSignedNumber(last.out.bits) = RetNumber(last.n.v)

\* fromSigned(-5) returned 1011, which reads back as -5.
C1_Witness ==
    /\ last.op = "fromSigned" /\ isInteger(last.n) /\ last.n.v = -5
    /\ last.out = RetBinary(<<1, 0, 1, 1>>)
    /\ toSignedNumber(last.out.bits).num = -5

C3_AddIsExact ==
    (last.op = "add" /\ last.other.isBinary /\ SameWidth) =>
        LET L == Len(last.this)
            sum == toNumber(last.this).num + toNumber(last.other.bits).num
            r == last.out.bits
        IN  /\ last.out.kind = "ok" /\ last.out.ret = "Binary"
            /\ Len(r) = L + 1
            /\ toNumber(r).num = sum
            /\ r[1] = IF sum >= 2^L THEN 1 ELSE 0

\* 111 + 001 returned 1000: the carry rippled through every position.
C3_Witness ==
    /\ last.op = "add" /\ last.other.isBinary
    /\ last.this = <<1, 1, 1>> /\ last.other.bits = <<0, 0, 1>>
    /\ last.out = RetBinary(<<1, 0, 0, 0>>)

\* C4: fromUnsigned(n) throws the integers-only error (InvalidInput), and
\* returns no Binary, whenever n is not an integer or n is negative.
C4_FromUnsignedRejects ==
    (last.op = "fromUnsigned" /\ (~isInteger(last.n) \/ last.n.v < 0)) =>
        last.out = Throw(OnlyIntegers)

\* C5: add, and, or and xor called with a Binary operand of another width
\* throw the bit-mismatch error (WidthMismatch) and return nothing.
C5_WidthMismatchThrows ==
    (BinaryOpOnBinary /\ ~SameWidth) => last.out = Throw(BitMismatch)

\* add was called with a wider operand and threw.
C5_Witness ==
    /\ last.op = "add" /\ last.other.isBinary
    /\ Len(last.this) = 2 /\ Len(last.other.bits) = 3
    /\ last.out = Throw(BitMismatch)

\* C6: zeroExtend(w) throws the need-larger error (InvalidWidth) for every
\* w <= the current width, the current width included, and
\* zeroExtendToMatch(other) throws it whenever other is not strictly wider.
C6_ZeroExtendMustGrow ==
    /\ (last.op = "zeroExtend" /\ last.nBits <= Len(last.this)) =>
           last.out = Throw(NeedLarger)
    /\ (last.op = "zeroExtendToMatch" /\ last.other.isBinary
           /\ Len(last.other.bits) <= Len(last.this)) =>
           last.out = Throw(NeedLarger)

\* zeroExtend to the current width threw.
C6_Witness ==
    /\ last.op = "zeroExtend" /\ Len(last.this) = 2 /\ last.nBits = 2
    /\ last.out = Throw(NeedLarger)

\* No bit array of width 1 .. w has two's-complement value n.
NoneNarrower(w, n) ==
    \A v \in BitSeqs(w) : Len(v) >= 1 => TwosComplement(v) # n

\* n = -(2^k) for some k >= 0.
NegativePowerOfTwo(n) == n < 0 /\ 2^floorLog2(-n) = -n

C8_Bitwise ==
    /\ (last.op \in {"and", "or", "xor"} /\ last.other.isBinary /\ SameWidth) =>
           LET a == last.this
               b == last.other.bits
               r == last.out.bits
           IN  /\ last.out.kind = "ok" /\ last.out.ret = "Binary"
               /\ Len(r) = Len(a)
               /\ \A i \in 1..Len(a) :
                     r[i] = CASE last.op = "and" -> a[i] * b[i]
                              [] last.op = "or" -> a[i] + b[i] - a[i] * b[i]
                              [] last.op = "xor" -> (a[i] + b[i]) % 2
               /\ last.out = CASE last.op = "and" -> and(b, Obj(a))
                                [] last.op = "or" -> or(b, Obj(a))
                                [] last.op = "xor" -> xor(b, Obj(a))
    /\ last.op = "not" =>
           /\ last.out.kind = "ok" /\ last.out.ret = "Binary"
           /\ Len(last.out.bits) = Len(last.this)
           /\ \A i \in 1..Len(last.this) : last.out.bits[i] = 1 - last.this[i]
           /\ not(last.out.bits) = RetBinary(last.this)

\* 101 xor 110 returned 011.
C8_Witness ==
    /\ last.op = "xor" /\ last.other.isBinary
    /\ last.this = <<1, 0, 1>> /\ last.other.bits = <<1, 1, 0>>
    /\ last.out = RetBinary(<<0, 1, 1>>)

\* C9: no call, returning or throwing, changes the bits of its receiver or
\* of its argument: every Binary a variable holds has the bit array, and so
\* the width, it was constructed with.
C9_NeverMutated == vecs = made

\* a.add(b) returned with a and b, neither a palindrome, as constructed.
C9_Witness ==
    /\ last.op = "add" /\ last.out.kind = "ok"
    /\ last.this = <<1, 1, 0>> /\ last.other.bits = <<0, 1, 1>>
    /\ vecs = made

\* C10: for every Binary v of width L >= 1, produced by fromSigned or not,
\* toSignedNumber() returns v.toNumber() when the most-significant bit is 0
\* and v.toNumber() - 2^L when it is 1.
C10_ToSignedIsTwosComplement ==
    (last.op = "toSignedNumber" /\ Len(last.this) >= 1) =>
        last.out = RetNumber(IF last.this[1] = 0
                             THEN toNumber(last.this).num
                             ELSE toNumber(last.this).num - 2^Len(last.this))

\* 100, which fromSigned never returns, read back as -4.
C10_Witness ==
    /\ last.op = "toSignedNumber" /\ last.this = <<1, 0, 0>>
    /\ last.out = RetNumber(-4)

====
